---- MODULE Spec2Model ----
(***************************************************************************)
(* Model of asset_library.py: GodotAssetScraper (scrape_all, scrape_asset, *)
(* _clean_repo_url, _parse_stars, save_results) and main().                *)
(*                                                                         *)
(* A Python str is a tuple of one-character strings, so that split, join,  *)
(* replace, strip, the substring test and the comparison of two strings    *)
(* are computed character by character, as Python computes them.           *)
(* An Optional value is a sequence of length 0 (None) or 1.                *)
(***************************************************************************)
EXTENDS Integers, Sequences, FiniteSets, TLC

\* ------------------------------------------------------------------ bounds
\* number of listing pages scrape_all is asked for (its max_pages argument)
MaxPages == 2
\* most entries (.asset-item) a fetched listing page holds
MaxItems == 2
\* pages and entries per page of the catalog snapshots of SpecRerun
SnapPages == 2
SnapItems == 1

\* ----------------------------------------------------------- Python strings
BASE_URL == <<"h", "t", "t", "p", "s", ":", "/", "/", "g", "o", "d", "o", "t", "e", "n", "g", "i", "n", "e", ".", "o", "r", "g">>
GITHUB == <<"g", "i", "t", "h", "u", "b">>
GITLAB == <<"g", "i", "t", "l", "a", "b">>
ZERO == <<"0">>

\* code points of the characters compared by the str comparison of line 101
Ord == (" " :> 32) @@ ("." :> 46) @@ ("0" :> 48) @@ ("1" :> 49) @@ ("2" :> 50)
       @@ ("3" :> 51) @@ ("4" :> 52)

Digits == {"0", "1", "2", "3", "4", "5", "6", "7", "8", "9"}
DigitVal == ("0" :> 0) @@ ("1" :> 1) @@ ("2" :> 2) @@ ("3" :> 3) @@ ("4" :> 4)
            @@ ("5" :> 5) @@ ("6" :> 6) @@ ("7" :> 7) @@ ("8" :> 8) @@ ("9" :> 9)

\* a > b on two str: the first differing character decides, a proper prefix is smaller
RECURSIVE StrGT(_, _)
StrGT(a, b) ==
    IF a = <<>> THEN FALSE
    ELSE IF b = <<>> THEN TRUE
    ELSE IF Head(a) = Head(b) THEN StrGT(Tail(a), Tail(b))
    ELSE Ord[Head(a)] > Ord[Head(b)]

\* sub in s
Contains(s, sub) ==
    \E i \in 1..(Len(s) - Len(sub) + 1) : SubSeq(s, i, i + Len(sub) - 1) = sub

\* s.replace(c, r), c one character
RECURSIVE Replace(_, _, _)
Replace(s, c, r) ==
    IF s = <<>> THEN <<>>
    ELSE (IF Head(s) = c THEN r ELSE <<Head(s)>>) \o Replace(Tail(s), c, r)

IsSpace(c) == c \in {" ", "\n", "\t"}

RECURSIVE LStrip(_)
LStrip(s) == IF s # <<>> /\ IsSpace(Head(s)) THEN LStrip(Tail(s)) ELSE s

RECURSIVE RStrip(_)
RStrip(s) ==
    IF s # <<>> /\ IsSpace(s[Len(s)]) THEN RStrip(SubSeq(s, 1, Len(s) - 1)) ELSE s

\* s.strip()
Strip(s) == RStrip(LStrip(s))

\* index of the first c in s, 0 when there is none
IndexOf(s, c) ==
    IF \E i \in 1..Len(s) : s[i] = c
    THEN CHOOSE i \in 1..Len(s) : s[i] = c /\ \A j \in 1..(i - 1) : s[j] # c
    ELSE 0

\* s.split(sep, maxsplit)
RECURSIVE Split(_, _, _)
Split(s, sep, maxsplit) ==
    LET i == IndexOf(s, sep)
    IN  IF maxsplit = 0 \/ i = 0 THEN <<s>>
        ELSE <<SubSeq(s, 1, i - 1)>> \o Split(SubSeq(s, i + 1, Len(s)), sep, maxsplit - 1)

\* sep.join(parts)
RECURSIVE Join(_, _)
Join(parts, sep) ==
    IF parts = <<>> THEN <<>>
    ELSE IF Len(parts) = 1 THEN parts[1]
    ELSE parts[1] \o <<sep>> \o Join(Tail(parts), sep)

\* parts[:n]
Slice(parts, n) == SubSeq(parts, 1, IF Len(parts) < n THEN Len(parts) ELSE n)

\* s.rsplit(sep)[-1]: what follows the last sep, the whole of s when there is none
RSplitLast(s, sep) ==
    LET at == {i \in 1..Len(s) : s[i] = sep}
    IN  IF at = {} THEN s
        ELSE SubSeq(s, (CHOOSE i \in at : \A j \in at : j <= i) + 1, Len(s))

\* ------------------------------------------------ GodotAssetScraper, pure parts
\* _clean_repo_url: the test is made on the whole URL text
clean_repo_url(repo_url) ==
    IF Contains(repo_url, GITHUB)
    THEN Join(Slice(Split(repo_url, "/", 5), 5), "/")
    ELSE repo_url

\* _parse_stars on a fetched repository page. soup.social and soup.star are the
\* outcomes of select_one('.js-social-count') and select_one('.star-count'):
\* <<>> when the element is absent (select_one gives None, and the attribute
\* access on None raises), else <<element>>.
parse_stars(soup, repo_url) ==
    IF Contains(repo_url, GITHUB)
    THEN IF soup.social = <<>>
         THEN [raised |-> TRUE, value |-> <<>>]
         ELSE [raised |-> FALSE,
               value |-> Replace(IF soup.social[1].title = <<>> THEN <<>>
                                 ELSE soup.social[1].title[1], ",", <<>>)]
    ELSE IF Contains(repo_url, GITLAB)
    THEN IF soup.star = <<>>
         THEN [raised |-> TRUE, value |-> <<>>]
         ELSE [raised |-> FALSE, value |-> Strip(soup.star[1].text)]
    ELSE [raised |-> FALSE, value |-> ZERO]

\* a variant of StarsOf that calls _parse_stars whatever the fetch gave
StarsOf_AlwaysParses(repo_soup, repo_url) ==
    IF repo_soup.fetch = "ok" THEN parse_stars(repo_soup, repo_url)
    ELSE [raised |-> TRUE, value |-> <<>>]

\* line 72: stars of a repository fetch outcome
StarsOf(repo_soup, repo_url) ==
    IF repo_soup.fetch = "ok" THEN parse_stars(repo_soup, repo_url)
    ELSE [raised |-> FALSE, value |-> ZERO]

\* variants of FailedAdd: the handler records nothing; the handler toggles
\* the URL (^= for |=)
FailedAdd_Forgets(failed, url) == failed
FailedAdd_Toggles(failed, url) ==
    IF url \in failed THEN failed \ {url} ELSE failed \cup {url}

\* line 84: the except handler's bookkeeping
FailedAdd(failed, url) == failed \cup {url}

\* a variant of AfterDetailFetchFailure that records the URL as failed
AfterDetailFetchFailure_Adds(failed, url) == failed \cup {url}

\* line 66: what a failed detail fetch leaves in failed_urls
AfterDetailFetchFailure(failed, url) == failed

\* variants of KeepPrevious: the comparison reversed (<); ties kept too (>=)
KeepPrevious_Reversed(previous_info, asset_info) ==
    StrGT(asset_info.godot_version, previous_info.godot_version)
KeepPrevious_OnTies(previous_info, asset_info) ==
    ~StrGT(asset_info.godot_version, previous_info.godot_version)

\* line 101: the stored record is kept and the new one discarded
KeepPrevious(previous_info, asset_info) ==
    StrGT(previous_info.godot_version, asset_info.godot_version)

\* a variant of NormalizeStars that reads "k" as a factor of 1000
NormalizeStars_Thousand(x) == Replace(Replace(x, ".", <<>>), "k", <<"0", "0", "0">>)

\* line 113: the lambda applied to every stars text
NormalizeStars(x) == Replace(Replace(x, ".", <<>>), "k", <<"0", "0">>)

RECURSIVE DigitsValue(_, _)
DigitsValue(s, acc) ==
    IF s = <<>> THEN acc ELSE DigitsValue(Tail(s), 10 * acc + DigitVal[Head(s)])

\* pd.to_numeric on one text: decimal digits give their number, the empty text
\* gives NaN, and "error" stands for the ValueError of any other text
ToNumeric(s) ==
    IF s = <<>> THEN [kind |-> "nan", value |-> 0]
    ELSE IF \A i \in 1..Len(s) : s[i] \in Digits
    THEN [kind |-> "int", value |-> DigitsValue(s, 0)]
    ELSE [kind |-> "error", value |-> 0]

\* sort_values("stars", ascending=False): a before b is a correct order
\* (NaN goes last; the order of equal keys is the sort algorithm's)
SortedBefore(a, b) ==
    \/ b.kind = "nan"
    \/ a.kind = "int" /\ b.kind = "int" /\ a.value >= b.value

\* ------------------------------------------------------------------ inputs
\* what the network and the documents can answer, drawn at the step that asks

\* href attributes of .asset-header elements
Hrefs == { <<"/", "a", "/", "1">>, <<"/", "a", "/", "2">> }

\* select_one('.asset-header') on a listing entry
HeaderOutcomes ==
    { [el |-> "absent", href |-> <<>>], [el |-> "nohref", href |-> <<>>] }
    \cup { [el |-> "ok", href |-> h] : h \in Hrefs }

\* href attributes of the repository link of a detail page
RepoHrefs ==
    { <<"h", "t", "t", "p", "s", ":", "/", "/", "g", "i", "t", "h", "u", "b", ".", "c", "o", "m", "/", "o", "/", "r", "/", "i", "s", "s", "u", "e", "s", "/", "5">>,
      <<"h", "t", "t", "p", "s", ":", "/", "/", "g", "i", "t", "l", "a", "b", ".", "c", "o", "m", "/", "o", "/", "r">> }

\* _make_request(asset_url), then select_one('.container a.btn-default')
DetailOutcomes ==
    { [fetch |-> "fail", el |-> "absent", href |-> <<>>],
      [fetch |-> "ok", el |-> "absent", href |-> <<>>],
      [fetch |-> "ok", el |-> "nohref", href |-> <<>>] }
    \cup { [fetch |-> "ok", el |-> "ok", href |-> h] : h \in RepoHrefs }

\* _make_request(repo_url) and the count elements of the page
RepoOutcomes ==
    { [fetch |-> "fail", social |-> <<>>, star |-> <<>>],
      [fetch |-> "ok", social |-> <<>>, star |-> <<>>],
      [fetch |-> "ok", social |-> << [title |-> << <<"1", ",", "3", "4", "0">> >>] >>, star |-> <<>>],
      [fetch |-> "ok", social |-> <<>>, star |-> << [text |-> <<" ", "1", ".", "2", "k", "\n">>] >>] }

TitleTexts == { <<" ", "A", "\n">> }
TagTexts == { <<" ", "4", ".", "2", " ">>, <<"4", ".", "1", "0", "\n">> }
FooterTexts == { <<"M", " ", "|", " ", "2", "d", "\n">> }

Opt(S) == { <<>> } \cup { <<x>> : x \in S }

\* select_one of '.asset-title h4', '.asset-tags .label-info', '.asset-footer span'
FieldOutcomes ==
    [title : Opt(TitleTexts), tag : Opt(TagTexts), footer : Opt(FooterTexts)]

\* _make_request(page_url), and whether the page holds no .asset-item entry
PageOutcomes ==
    { [fetch |-> "fail", empty |-> TRUE], [fetch |-> "ok", empty |-> TRUE],
      [fetch |-> "ok", empty |-> FALSE] }

\* ------------------------------------------------------------------- state
VARIABLES
    pc,             \* where the program is: "start", "page" (line 89), "header"
                    \* (line 61), "detail" (64), "repo" (71), "build" (74), "ret"
                    \* (line 98), "done", "raised" (an exception left the call),
                    \* "saved"
    max_pages,      \* the argument of scrape_all
    page,           \* the loop variable of line 89
    item_idx,       \* index of the current entry in soup.select('.asset-item')
    asset_url, repo_url, stars,     \* locals of scrape_asset
    asset_info,     \* what scrape_asset returned: <<>> (None) or <<record>>
    asset_dict,     \* self.asset_dict: asset URL -> AssetInfo
    failed_urls,    \* self.failed_urls
    rows,           \* the rows save_results writes, in order
    \* history of the run, read by the properties only
    last_in,        \* the answer the last step received
    requests,       \* the _make_request calls of the current scrape_asset call
    parse_called,   \* _parse_stars was called in the current scrape_asset call
    extracted,      \* <<asset URL, tag>> -> the last record scrape_asset returned
                    \* with that URL and tag (the "Scraped:" log of line 99)
    fetched_pages,  \* page indices requested by the current scrape_all call
    page_failed,    \* a listing page fetch has failed in the current call
    \* runs over a fixed catalog snapshot
    catalog,        \* the snapshot: the answers of every page and entry
    run,            \* number of the scrape_all call
    first_result,   \* <<>> or <<what the first call left>>
    \* application of _clean_repo_url alone
    fn_in, fn_out

vars == <<pc, max_pages, page, item_idx, asset_url, repo_url, stars,
          asset_info, asset_dict, failed_urls, rows, last_in, requests,
          parse_called, extracted, fetched_pages, page_failed, catalog, run,
          first_result, fn_in, fn_out>>

locals == <<asset_url, repo_url, stars, asset_info>>
position == <<page, item_idx>>
results == <<asset_dict, failed_urls>>
snapshot == <<catalog, run, first_result, fn_in, fn_out, max_pages>>

NoInput == [step |-> "none"]

\* a GodotAssetScraper as __init__ leaves it, and main() about to call scrape_all
Constructed ==
    /\ pc = "start"
    /\ page = 0 /\ item_idx = 0
    /\ asset_url = <<>> /\ repo_url = <<>> /\ stars = <<>> /\ asset_info = <<>>
    /\ asset_dict = <<>>
    /\ failed_urls = {}
    /\ rows = <<>>
    /\ last_in = NoInput
    /\ requests = <<>>
    /\ parse_called = FALSE
    /\ extracted = <<>>
    /\ fetched_pages = <<>>
    /\ page_failed = FALSE
    /\ run = 1
    /\ first_result = <<>>
    /\ fn_out = <<>>

Init ==
    /\ Constructed
    /\ max_pages = MaxPages
    /\ catalog = <<>>
    /\ fn_in = <<>>

\* ------------------------------------------------------------- scrape_all
\* line 89: the first iteration of the page loop
ScrapeAllBegin ==
    /\ pc = "start"
    /\ pc' = "page"
    /\ UNCHANGED <<position, locals, results, rows, last_in, requests,
                   parse_called, extracted, fetched_pages, page_failed, snapshot>>

\* lines 97 and 89: the next entry of the page when the list has one more,
\* else the next page
NextEntry(more) ==
    IF more
    THEN /\ pc' = "header"
         /\ item_idx' = item_idx + 1
         /\ UNCHANGED page
    ELSE /\ pc' = "page"
         /\ page' = page + 1
         /\ item_idx' = 0

\* lines 90-97: fetch one listing page; a failed fetch skips the page
FetchPage(p) ==
    /\ pc = "page"
    /\ page < max_pages
    /\ last_in' = [step |-> "page", fetch |-> p.fetch, empty |-> p.empty]
    /\ fetched_pages' = Append(fetched_pages, page)
    /\ IF p.fetch = "fail" \/ p.empty
       THEN /\ pc' = "page"
            /\ page' = page + 1
            /\ UNCHANGED item_idx
       ELSE /\ pc' = "header"
            /\ item_idx' = 0
            /\ UNCHANGED page
    /\ page_failed' = (page_failed \/ p.fetch = "fail")
    /\ UNCHANGED <<locals, results, rows, requests, parse_called, extracted, snapshot>>

\* lines 105-106: the loop is over, the summary is logged
ScrapeAllEnd ==
    /\ pc = "page"
    /\ page >= max_pages
    /\ pc' = "done"
    /\ UNCHANGED <<position, locals, results, rows, last_in, requests,
                   parse_called, extracted, fetched_pages, page_failed, snapshot>>

\* ------------------------------------------------------------ scrape_asset
\* lines 61-62. With the element or its href absent, line 62 raises inside the
\* try; the handler's line 84 reads asset_url, which was never bound, and the
\* UnboundLocalError leaves scrape_asset and scrape_all.
ScrapeHeader(h) ==
    /\ pc = "header"
    /\ last_in' = [step |-> "header", el |-> h.el]
    /\ requests' = <<>>
    /\ parse_called' = FALSE
    /\ IF h.el = "ok"
       THEN /\ asset_url' = BASE_URL \o h.href
            /\ pc' = "detail"
       ELSE /\ asset_url' = <<>>
            /\ pc' = "raised"
    /\ UNCHANGED <<position, repo_url, stars, asset_info, results, rows,
                   extracted, fetched_pages, page_failed, snapshot>>

\* scrape_asset returns ret to line 98 of scrape_all; its locals are gone
Return(ret) ==
    /\ asset_info' = ret
    /\ pc' = "ret"
    /\ asset_url' = <<>> /\ repo_url' = <<>> /\ stars' = <<>>

\* lines 64-69: the detail page and its repository link
FetchDetail(d) ==
    /\ pc = "detail"
    /\ last_in' = [step |-> "detail", fetch |-> d.fetch, el |-> d.el]
    /\ requests' = Append(requests, [kind |-> "detail", ok |-> d.fetch = "ok"])
    /\ IF d.fetch = "fail"
       THEN /\ failed_urls' = AfterDetailFetchFailure(failed_urls, asset_url)
            /\ Return(<<>>)
       ELSE IF d.el # "ok"
       THEN /\ failed_urls' = FailedAdd(failed_urls, asset_url)
            /\ Return(<<>>)
       ELSE /\ repo_url' = clean_repo_url(d.href)
            /\ pc' = "repo"
            /\ UNCHANGED <<asset_url, stars, asset_info, failed_urls>>
    /\ UNCHANGED <<position, asset_dict, rows, parse_called,
                   extracted, fetched_pages, page_failed, snapshot>>

\* lines 71-72: the repository page and the stars
FetchRepo(r) ==
    /\ pc = "repo"
    /\ last_in' = [step |-> "repo", fetch |-> r.fetch,
                   count |-> (r.social # <<>> \/ r.star # <<>>)]
    /\ requests' = Append(requests, [kind |-> "repo", ok |-> r.fetch = "ok"])
    /\ parse_called' = (r.fetch = "ok")
    /\ LET res == StarsOf(r, repo_url)
       IN  IF res.raised
           THEN /\ failed_urls' = FailedAdd(failed_urls, asset_url)
                /\ Return(<<>>)
           ELSE /\ stars' = res.value
                /\ pc' = "build"
                /\ UNCHANGED <<asset_url, repo_url, asset_info, failed_urls>>
    /\ UNCHANGED <<position, asset_dict, rows, extracted,
                   fetched_pages, page_failed, snapshot>>

\* lines 74-81: the record, its fields read in the order name, godot_version,
\* last_updated; an absent element raises into the handler of lines 82-85
BuildRecord(f) ==
    /\ pc = "build"
    /\ last_in' = [step |-> "build", title |-> f.title # <<>>, tag |-> f.tag # <<>>,
                   footer |-> f.footer # <<>>]
    /\ IF f.title = <<>> \/ f.tag = <<>> \/ f.footer = <<>>
       THEN /\ failed_urls' = FailedAdd(failed_urls, asset_url)
            /\ Return(<<>>)
       ELSE /\ Return(<< [name |-> Strip(f.title[1]),
                          asset_url |-> asset_url,
                          repo_url |-> repo_url,
                          stars |-> stars,
                          godot_version |-> Strip(f.tag[1]),
                          last_updated |-> Strip(RSplitLast(f.footer[1], "|"))] >>)
            /\ UNCHANGED failed_urls
    /\ UNCHANGED <<position, asset_dict, rows,
                   requests, parse_called, extracted, fetched_pages, page_failed,
                   snapshot>>

\* lines 98-103: scrape_asset has returned; the record, if any, is merged
Merge(more) ==
    /\ pc = "ret"
    /\ IF asset_info = <<>>
       THEN UNCHANGED <<asset_dict, extracted>>
       ELSE LET info == asset_info[1]
                url == info.asset_url
            IN  /\ extracted' = (<<url, info.godot_version>> :> info) @@ extracted
                /\ IF url \in DOMAIN asset_dict /\ KeepPrevious(asset_dict[url], info)
                   THEN UNCHANGED asset_dict
                   ELSE asset_dict' = (url :> info) @@ asset_dict
    /\ NextEntry(more)
    /\ asset_info' = <<>>
    /\ last_in' = [step |-> "merge",
                   new |-> IF asset_info = <<>> THEN <<>>
                           ELSE <<asset_info[1].godot_version>>,
                   previous |-> IF asset_info = <<>>
                                   \/ asset_info[1].asset_url \notin DOMAIN asset_dict
                                THEN <<>>
                                ELSE <<asset_dict[asset_info[1].asset_url].godot_version>>]
    /\ requests' = <<>>
    /\ parse_called' = FALSE
    /\ UNCHANGED <<asset_url, repo_url, stars, failed_urls, rows, fetched_pages,
                   page_failed, snapshot>>

\* ------------------------------------------------------------ save_results
Keys == DOMAIN asset_dict
Orders == { o \in [1..Cardinality(Keys) -> Keys] :
                \A i, j \in 1..Cardinality(Keys) : i # j => o[i] # o[j] }
StarsNumber(url) == ToNumeric(NormalizeStars(asset_dict[url].stars))

\* lines 110-117, called by main() once scrape_all has returned
SaveResults ==
    /\ pc = "done"
    /\ IF \E u \in Keys : StarsNumber(u).kind = "error"
       THEN /\ pc' = "raised"
            /\ UNCHANGED rows
       ELSE /\ pc' = "saved"
            /\ \E o \in Orders :
                 /\ \A i, j \in 1..Cardinality(Keys) :
                        i < j => SortedBefore(StarsNumber(o[i]), StarsNumber(o[j]))
                 /\ rows' = [i \in 1..Cardinality(Keys) |->
                               [asset_dict[o[i]] EXCEPT !.stars = StarsNumber(o[i])]]
    /\ UNCHANGED <<position, locals, results, last_in, requests, parse_called,
                   extracted, fetched_pages, page_failed, snapshot>>

\* whether soup.select('.asset-item') holds an entry after the current one
MoreOutcomes == { m \in BOOLEAN : m => item_idx + 1 < MaxItems }

\* main(): one scraper, scrape_all, then save_results
Next ==
    \/ ScrapeAllBegin
    \/ \E p \in PageOutcomes : FetchPage(p)
    \/ ScrapeAllEnd
    \/ \E h \in HeaderOutcomes : ScrapeHeader(h)
    \/ \E d \in DetailOutcomes : FetchDetail(d)
    \/ \E r \in RepoOutcomes : FetchRepo(r)
    \/ \E f \in FieldOutcomes : BuildRecord(f)
    \/ \E more \in MoreOutcomes : Merge(more)
    \/ SaveResults

Spec == Init /\ [][Next]_vars

\* ------------------------------------------- scrape_all over a fixed snapshot
\* Listing entries with everything behind them: the answers of the header
\* lookup, the detail fetch, the repository fetch and the field lookups.
SnapEntries ==
    { [header |-> [el |-> "ok", href |-> <<"/", "a", "/", "1">>],
       detail |-> [fetch |-> "ok", el |-> "ok",
                   href |-> <<"h", "t", "t", "p", "s", ":", "/", "/", "g", "i", "t", "h", "u", "b", ".", "c", "o", "m", "/", "o", "/", "r", "/", "i", "s", "s", "u", "e", "s", "/", "5">>],
       repo |-> [fetch |-> "ok", social |-> << [title |-> << <<"1", ",", "3", "4", "0">> >>] >>, star |-> <<>>],
       fields |-> [title |-> << <<" ", "A", "\n">> >>, tag |-> << <<" ", "4", ".", "2", " ">> >>,
                   footer |-> << <<"M", " ", "|", " ", "2", "d", "\n">> >>]],
      [header |-> [el |-> "ok", href |-> <<"/", "a", "/", "1">>],
       detail |-> [fetch |-> "ok", el |-> "ok",
                   href |-> <<"h", "t", "t", "p", "s", ":", "/", "/", "g", "i", "t", "l", "a", "b", ".", "c", "o", "m", "/", "o", "/", "r">>],
       repo |-> [fetch |-> "ok", social |-> <<>>, star |-> << [text |-> <<" ", "1", ".", "2", "k", "\n">>] >>],
       fields |-> [title |-> << <<" ", "A", "\n">> >>, tag |-> << <<"4", ".", "1", "0", "\n">> >>,
                   footer |-> << <<"M", " ", "|", " ", "2", "d", "\n">> >>]],
      [header |-> [el |-> "ok", href |-> <<"/", "a", "/", "1">>],
       detail |-> [fetch |-> "ok", el |-> "ok",
                   href |-> <<"h", "t", "t", "p", "s", ":", "/", "/", "g", "i", "t", "l", "a", "b", ".", "c", "o", "m", "/", "o", "/", "r">>],
       repo |-> [fetch |-> "fail", social |-> <<>>, star |-> <<>>],
       fields |-> [title |-> << <<" ", "B", "\n">> >>, tag |-> << <<" ", "4", ".", "2", " ">> >>,
                   footer |-> << <<"M", " ", "|", " ", "2", "d", "\n">> >>]],
      [header |-> [el |-> "ok", href |-> <<"/", "a", "/", "2">>],
       detail |-> [fetch |-> "ok", el |-> "ok",
                   href |-> <<"h", "t", "t", "p", "s", ":", "/", "/", "e", "x", ".", "o", "r", "g", "/", "r">>],
       repo |-> [fetch |-> "ok", social |-> <<>>, star |-> <<>>],
       fields |-> [title |-> <<>>, tag |-> << <<" ", "4", ".", "2", " ">> >>,
                   footer |-> << <<"M", " ", "|", " ", "2", "d", "\n">> >>]] }

SnapPageSet ==
    { [fetch |-> "fail", entries |-> <<>>] }
    \cup { [fetch |-> "ok", entries |-> es] :
             es \in UNION { [1..n -> SnapEntries] : n \in 0..SnapItems } }

Catalogs == [1..SnapPages -> SnapPageSet]

SnapPage == catalog[page + 1]
SnapEntry == SnapPage.entries[item_idx + 1]

InitRerun ==
    /\ Constructed
    /\ fn_in = <<>>
    /\ catalog \in Catalogs
    /\ max_pages = SnapPages

SnapFetchPage ==
    /\ pc = "page" /\ page < max_pages
    /\ FetchPage([fetch |-> SnapPage.fetch, empty |-> SnapPage.entries = <<>>])

SnapScrapeHeader == pc = "header" /\ ScrapeHeader(SnapEntry.header)
SnapFetchDetail == pc = "detail" /\ FetchDetail(SnapEntry.detail)
SnapFetchRepo == pc = "repo" /\ FetchRepo(SnapEntry.repo)
SnapBuildRecord == pc = "build" /\ BuildRecord(SnapEntry.fields)
SnapMerge == pc = "ret" /\ Merge(item_idx + 1 < Len(SnapPage.entries))

\* scrape_all is called a second time over the same snapshot: on the same
\* scraper, or on a newly constructed one (line 121)
ScrapeAgain(fresh) ==
    /\ pc = "done"
    /\ run = 1
    /\ run' = 2
    /\ first_result' = << [asset_dict |-> asset_dict, failed_urls |-> failed_urls,
                           fresh |-> fresh] >>
    /\ pc' = "page"
    /\ page' = 0
    /\ fetched_pages' = <<>>
    /\ page_failed' = FALSE
    /\ last_in' = NoInput
    /\ IF fresh
       THEN asset_dict' = <<>> /\ failed_urls' = {} /\ extracted' = <<>>
       ELSE UNCHANGED <<asset_dict, failed_urls, extracted>>
    /\ UNCHANGED <<item_idx, locals, rows, requests, parse_called, catalog,
                   max_pages, fn_in, fn_out>>

NextRerun ==
    \/ ScrapeAllBegin
    \/ SnapFetchPage
    \/ ScrapeAllEnd
    \/ SnapScrapeHeader
    \/ SnapFetchDetail
    \/ SnapFetchRepo
    \/ SnapBuildRecord
    \/ SnapMerge
    \/ \E fresh \in BOOLEAN : ScrapeAgain(fresh)

SpecRerun == InitRerun /\ [][NextRerun]_vars

\* ------------------------------------------------ _clean_repo_url on its own
Hosts == { <<"g", "i", "t", "h", "u", "b", ".", "c", "o", "m">>,
           <<"g", "i", "s", "t", ".", "g", "i", "t", "h", "u", "b", ".", "c", "o", "m">>,
           <<"g", "i", "t", "l", "a", "b", ".", "c", "o", "m">>,
           <<"e", "x", ".", "o", "r", "g">> }
Owners == { <<"o">>, <<"g", "i", "t", "h", "u", "b">> }
Tails == { <<>>,
           << <<>> >>,
           << <<"i", "s", "s", "u", "e", "s">>, <<"5">> >>,
           << <<"t", "r", "e", "e">>, <<"m", "a", "i", "n">> >>,
           << <<"-">>, <<"i", "s", "s", "u", "e", "s">>, <<"5">> >> }

\* https://<host>/<owner>/r followed by nothing, a slash or a deeper path
RawURLs ==
    { Join(<< <<"h", "t", "t", "p", "s", ":">>, <<>>, host, owner, <<"r">> >> \o tail, "/") :
        host \in Hosts, owner \in Owners, tail \in Tails }

InitClean ==
    /\ Constructed
    /\ max_pages = MaxPages
    /\ catalog = <<>>
    /\ fn_in \in RawURLs

\* repo_url = self._clean_repo_url(repo_url), applied to its own result once more
CleanRepoUrl ==
    /\ pc = "start"
    /\ fn_in # <<>>
    /\ Len(fn_out) < 2
    /\ fn_out' = Append(fn_out, clean_repo_url(IF fn_out = <<>> THEN fn_in
                                               ELSE fn_out[Len(fn_out)]))
    /\ UNCHANGED <<pc, max_pages, position, locals, results, rows, last_in,
                   requests, parse_called, extracted, fetched_pages, page_failed,
                   catalog, run, first_result, fn_in>>

NextClean == CleanRepoUrl

SpecClean == InitClean /\ [][NextClean]_vars

\* ================================================================ properties
T42 == <<"4", ".", "2">>
T410 == <<"4", ".", "1", "0">>
S12k == <<"1", ".", "2", "k">>

\* the tags of the records extracted so far for asset URL u
TagsSeen(u) == { k[2] : k \in { x \in DOMAIN extracted : x[1] = u } }
UrlsSeen == { k[1] : k \in DOMAIN extracted }
\* the lexicographic maximum of a non-empty set of tags
LexMax(S) == CHOOSE t \in S : \A o \in S : ~StrGT(o, t)

\* C1: no failure while extracting a listing entry is fatal: when the header
\* element or its href is missing, scrape_asset has returned no record to
\* scrape_all (it has not raised out of the run).
C1_NoExtractionFailureIsFatal ==
    (last_in.step = "header" /\ last_in.el # "ok") => (pc = "ret" /\ asset_info = <<>>)

\* C2: for every asset URL with an extracted record, the stored record's
\* godot_version is the lexicographic maximum of the tags extracted for that URL
\* so far; with "4.2" and "4.10" both extracted, the stored tag is "4.2".
C2_StoredTagIsLexMax ==
    /\ DOMAIN asset_dict = UrlsSeen
    /\ \A u \in UrlsSeen :
         /\ asset_dict[u].godot_version = LexMax(TagsSeen(u))
         /\ ({T42, T410} \subseteq TagsSeen(u) => asset_dict[u].godot_version = T42)

\* a record tagged "4.10" has just been merged against a stored "4.2", or a
\* "4.2" against a stored "4.10"
C2_Witness ==
    /\ last_in.step = "merge"
    /\ last_in.new = <<T410>>
    /\ last_in.previous = <<T42>>
    /\ \E u \in UrlsSeen : TagsSeen(u) = {T42, T410}

\* C3: a failed listing-page fetch adds nothing to asset_dict or failed_urls,
\* is not retried (the next page index is next), and does not end the run:
\* every later page is still fetched, so the run never ends by an exception.
C3_PageFetchFailureIsolated ==
    /\ [][(/\ pc = "page" /\ fetched_pages' = Append(fetched_pages, page)
           /\ last_in'.step = "page" /\ last_in'.fetch = "fail")
            => (/\ asset_dict' = asset_dict
                /\ failed_urls' = failed_urls
                /\ pc' = "page"
                /\ page' = page + 1)]_vars
    /\ [](page_failed => pc # "raised")

\* C4: a failed detail fetch returns no record, leaves asset_dict and
\* failed_urls as they were before the entry (the header step and the return to
\* scrape_all change neither), and no repository fetch is issued.
C4_DetailFetchFailureFrame ==
    /\ [][(pc = "detail" /\ last_in'.step = "detail" /\ last_in'.fetch = "fail")
            => (/\ pc' = "ret"
                /\ asset_info' = <<>>
                /\ asset_dict' = asset_dict
                /\ failed_urls' = failed_urls
                /\ requests' = << [kind |-> "detail", ok |-> FALSE] >>)]_vars
    /\ [][pc = "header" => (asset_dict' = asset_dict /\ failed_urls' = failed_urls)]_vars
    /\ [][(pc = "ret" /\ asset_info = <<>>)
            => (asset_dict' = asset_dict /\ failed_urls' = failed_urls)]_vars

\* a detail fetch has just failed while failed_urls and asset_dict held entries
C4_Witness ==
    /\ pc = "ret"
    /\ last_in.step = "detail"
    /\ last_in.fetch = "fail"
    /\ failed_urls # {}
    /\ DOMAIN asset_dict # {}

\* the step found an expected element missing after the detail page was fetched
MissingElement ==
    \/ /\ pc = "detail" /\ last_in'.step = "detail"
       /\ last_in'.fetch = "ok" /\ last_in'.el = "absent"
    \/ /\ pc = "repo" /\ last_in'.step = "repo"
       /\ last_in'.fetch = "ok" /\ ~last_in'.count
       /\ (Contains(repo_url, GITHUB) \/ Contains(repo_url, GITLAB))
    \/ /\ pc = "build" /\ last_in'.step = "build"
       /\ ~(last_in'.title /\ last_in'.tag /\ last_in'.footer)

\* C5: with the asset URL resolved and the detail page fetched, a missing
\* repository link, title, tag, footer or github/gitlab count element makes
\* scrape_asset add exactly that asset URL to failed_urls and return no record,
\* and asset_dict is not changed by the entry.
C5_MissingElementRecorded ==
    /\ [][MissingElement
            => (/\ failed_urls' = failed_urls \cup {asset_url}
                /\ asset_url # <<>>
                /\ asset_info' = <<>>
                /\ pc' = "ret"
                /\ asset_dict' = asset_dict)]_vars
    /\ [][(pc = "ret" /\ asset_info = <<>>) => asset_dict' = asset_dict]_vars

\* a count element was missing on a github or gitlab page, and the URL of the
\* entry joined another one in failed_urls
C5_Witness ==
    /\ pc = "ret"
    /\ asset_info = <<>>
    /\ last_in.step = "repo"
    /\ ~last_in.count
    /\ Cardinality(failed_urls) = 2

\* the host name of an absolute URL scheme://host/...
HostOf(url) == Split(url, "/", -1)[3]
\* scheme + host + owner + repo of an absolute URL
RepoRoot(url) == Join(SubSeq(Split(url, "/", -1), 1, 5), "/")

\* C6: _clean_repo_url decides on the host name only: a host containing
\* "github" gives scheme + host + owner + repo, any other host gives the input
\* unchanged, and a second application changes nothing.
C6_CleanDecidesOnHost ==
    fn_out # <<>> =>
        /\ (Contains(HostOf(fn_in), GITHUB) => fn_out[1] = RepoRoot(fn_in))
        /\ (~Contains(HostOf(fn_in), GITHUB) => fn_out[1] = fn_in)
        /\ (Len(fn_out) = 2 => fn_out[2] = fn_out[1])

\* the number the claim gives for a stars text: periods removed, then a
\* trailing "k" replaced by "00"
ClaimedNumber(x) ==
    LET t == Replace(x, ".", <<>>)
        u == IF t # <<>> /\ t[Len(t)] = "k"
             THEN SubSeq(t, 1, Len(t) - 1) \o <<"0", "0">>
             ELSE t
    IN  DigitsValue(u, 0)

\* score texts as the repository sites render them
ScoreTexts ==
    { ZERO, S12k, <<"3", "4", "0">>, <<"1", "3", "4", "0">>, <<"3", "k">>,
      <<"1", ".", "2", "5", "k">>, <<"1", "2", ".", "5", "k">> }

\* C7: save_results writes one row per stored record, its score the claimed
\* number of the stored text ("1.2k" 1200, "340" 340, "0" 0), rows in
\* descending order of it, and the stored records keep the text as scraped.
C7_ExportNormalizesAndSorts ==
    /\ ToNumeric(NormalizeStars(S12k)) = [kind |-> "int", value |-> 1200]
    /\ ToNumeric(NormalizeStars(<<"3", "4", "0">>)) = [kind |-> "int", value |-> 340]
    /\ ToNumeric(NormalizeStars(ZERO)) = [kind |-> "int", value |-> 0]
    /\ \A x \in ScoreTexts :
         ToNumeric(NormalizeStars(x)) = [kind |-> "int", value |-> ClaimedNumber(x)]
    /\ pc = "saved" =>
        /\ Len(rows) = Cardinality(DOMAIN asset_dict)
        /\ { rows[i].asset_url : i \in 1..Len(rows) } = DOMAIN asset_dict
        /\ \A i \in 1..Len(rows) :
             LET stored == asset_dict[rows[i].asset_url]
             IN  /\ rows[i].stars = [kind |-> "int", value |-> ClaimedNumber(stored.stars)]
                 /\ stored = extracted[<<stored.asset_url, stored.godot_version>>]
                 /\ stored.stars \in {ZERO, S12k, <<"1", "3", "4", "0">>}
                 /\ (stored.stars = S12k => rows[i].stars.value = 1200)
        /\ \A i, j \in 1..Len(rows) : i < j => rows[i].stars.value >= rows[j].stars.value

\* two rows were written, the one scraped as "1.2k" after a larger one
C7_Witness ==
    /\ pc = "saved"
    /\ Len(rows) = 2
    /\ rows[1].stars.value > rows[2].stars.value
    /\ asset_dict[rows[2].asset_url].stars = S12k

\* C8: over an unchanged snapshot, a second scrape_all, on the same scraper or
\* on a new one, ends with the asset_dict and failed_urls of the first.
C8_RerunSameResult ==
    (run = 2 /\ pc = "done") =>
        /\ asset_dict = first_result[1].asset_dict
        /\ failed_urls = first_result[1].failed_urls

\* a second run on the same scraper has ended, with a stored record and a
\* failed URL
C8_Witness ==
    /\ run = 2
    /\ pc = "done"
    /\ ~first_result[1].fresh
    /\ failed_urls # {}
    /\ DOMAIN asset_dict # {}

\* C9: pages are requested in index order and entries taken in listing order,
\* one at a time; a new record is discarded exactly when the stored record of
\* its URL has a strictly greater tag, else it is stored; so the stored record
\* is the last one extracted with the maximal tag.
C9_OrderAndTieBreak ==
    /\ [](/\ \A i \in 1..Len(fetched_pages) : fetched_pages[i] = i - 1
          /\ (pc = "page" => page = Len(fetched_pages) /\ item_idx = 0)
          /\ (pc \in {"header", "detail", "repo", "build", "ret"}
                => page = Len(fetched_pages) - 1)
          /\ \A u \in UrlsSeen : asset_dict[u] = extracted[<<u, LexMax(TagsSeen(u))>>])
    /\ [][(pc = "ret" /\ pc' = "header") => (page' = page /\ item_idx' = item_idx + 1)]_vars
    /\ [][(pc = "ret" /\ asset_info # <<>>)
            => LET info == asset_info[1]
                   url == info.asset_url
               IN  IF url \in DOMAIN asset_dict
                      /\ StrGT(asset_dict[url].godot_version, info.godot_version)
                   THEN asset_dict' = asset_dict
                   ELSE /\ asset_dict'[url] = info
                        /\ DOMAIN asset_dict' = DOMAIN asset_dict \cup {url}
                        /\ \A o \in DOMAIN asset_dict \ {url} : asset_dict'[o] = asset_dict[o]]_vars

\* a record has just replaced a different stored record of the same URL and tag,
\* on the second page
C9_Witness ==
    /\ last_in.step = "merge"
    /\ last_in.new # <<>>
    /\ last_in.previous = last_in.new
    /\ page = 1
    /\ item_idx = 1
    /\ \E u \in UrlsSeen : Cardinality(TagsSeen(u)) = 2

DetailThenFailedRepo ==
    << [kind |-> "detail", ok |-> TRUE], [kind |-> "repo", ok |-> FALSE] >>

\* C10: a failed repository fetch is no extraction failure: the stars are "0",
\* _parse_stars is not called, failed_urls is untouched, and with title, tag and
\* footer present scrape_asset returns a record with stars "0".
C10_RepoFetchFailureGivesZero ==
    /\ [][(pc = "repo" /\ last_in'.step = "repo" /\ last_in'.fetch = "fail")
            => (/\ pc' = "build"
                /\ stars' = ZERO
                /\ ~parse_called'
                /\ failed_urls' = failed_urls
                /\ asset_dict' = asset_dict)]_vars
    /\ [][(/\ pc = "build" /\ requests = DetailThenFailedRepo
           /\ last_in'.step = "build"
           /\ last_in'.title /\ last_in'.tag /\ last_in'.footer)
            => (/\ pc' = "ret"
                /\ asset_info' # <<>>
                /\ asset_info'[1].stars = ZERO
                /\ asset_info'[1].asset_url = asset_url
                /\ ~parse_called'
                /\ failed_urls' = failed_urls)]_vars

\* scrape_asset has returned a record after the repository fetch failed
C10_Witness ==
    /\ pc = "ret"
    /\ asset_info # <<>>
    /\ requests = DetailThenFailedRepo
    /\ asset_info[1].stars = ZERO
    /\ ~parse_called

====
